---- MODULE Spec2Model ----
(***************************************************************************)
(* Filter-state subsystem of workupcloud-templates: the useFilters hook    *)
(* (a React state cell holding name -> {value, isHidden,                   *)
(* appliedInternally}, persisted to localStorage by an effect) and the     *)
(* FiltersSheet component that drives it, and the table widgets of the     *)
(* page: PaginationControls, DeleteDialog and ExportDialog.                *)
(*                                                                         *)
(* React is modelled at the granularity the hook depends on: a state       *)
(* setter only enqueues an update; a render applies the queued updates     *)
(* and commits; the passive effects of the commit run before the next      *)
(* render.                                                                 *)
(***************************************************************************)
EXTENDS Integers, Sequences, FiniteSets, TLC

\* ------------------------------------------------------------------ bounds
MaxOps == 2        \* mutation / reload events in one behaviour

\* ------------------------------------------------------------ JS values
\* One record shape for every JS value a filter can hold: t is the tag,
\* s the text of a string, n the number (or 0/1 of a boolean), a the
\* elements of an array of strings.
Str(x) == [t |-> "string", s |-> x, n |-> 0, a |-> <<>>]
Num(x) == [t |-> "number", s |-> "", n |-> x, a |-> <<>>]
Bool(b) == [t |-> "boolean", s |-> "", n |-> IF b THEN 1 ELSE 0, a |-> <<>>]
Arr(x) == [t |-> "array", s |-> "", n |-> 0, a |-> x]
NaN == [t |-> "NaN", s |-> "", n |-> 0, a |-> <<>>]
Null == [t |-> "null", s |-> "", n |-> 0, a |-> <<>>]
Undefined == [t |-> "undefined", s |-> "", n |-> 0, a |-> <<>>]

FilterValue(v, h, ai) == [value |-> v, isHidden |-> h, appliedInternally |-> ai]

\* A Filters object is the sequence of its own properties in property
\* order, the order Object.entries, the object spread and JSON.stringify
\* enumerate them in: the keys that are array indices first, in ascending
\* numeric order, then the other keys in the order they were created.
Prop(k, fv) == [key |-> k, filter |-> fv]

\* The array index a key of the model denotes (a canonical numeric string
\* below 2^32 - 1), -1 for a key that is not an array index.
ArrayIndexOf(k) == CASE k = "2" -> 2 [] k = "10" -> 10 [] OTHER -> -1

Keys(m) == {m[i].key : i \in 1..Len(m)}

IndexOf(m, k) == IF k \in Keys(m) THEN CHOOSE i \in 1..Len(m) : m[i].key = k ELSE 0

\* Variant of the updater that always adds the entry at the end.
SpreadSet_alwaysAppends(m, k, fv) == Append(m, Prop(k, fv))

\* { ...prevFilters, [name]: fv }: an existing key keeps its place; a new
\* key goes last unless it is an array index, which goes among the array
\* indices, before the first greater one.
SpreadSet(m, k, fv) ==
    IF k \in Keys(m)
    THEN [i \in 1..Len(m) |-> IF m[i].key = k THEN Prop(k, fv) ELSE m[i]]
    ELSE IF ArrayIndexOf(k) < 0
    THEN Append(m, Prop(k, fv))
    ELSE LET goesBefore(p) == ArrayIndexOf(p.key) >= 0 /\ ArrayIndexOf(p.key) < ArrayIndexOf(k)
         IN  SelectSeq(m, goesBefore) \o << Prop(k, fv) >>
               \o SelectSeq(m, LAMBDA p : ~goesBefore(p))

\* Variant of the updater that returns an empty object.
SpreadDelete_clearsAll(m, k) == <<>>

\* { ...prevFilters } followed by delete updatedFilters[name]
SpreadDelete(m, k) == SelectSeq(m, LAMBDA p : p.key # k)

\* ------------------------------------------------------- useFilters reads
\* Variant of the test that forgets the Number.isNaN condition.
IsApplied_withoutNaNTest(v) ==
    /\ ~(v.t = "string" /\ v.s = "")
    /\ v.t # "null"
    /\ v.t # "undefined"
    /\ ~(v.t = "array" /\ Len(v.a) = 0)

\* The test of getAppliedFilters on one filter.value.
IsApplied(v) ==
    /\ ~(v.t = "string" /\ v.s = "")            \* filter.value !== ""
    /\ v.t # "null"                             \* filter.value !== null
    /\ v.t # "undefined"                        \* filter.value !== undefined
    /\ ~(v.t = "array" /\ Len(v.a) = 0)         \* !(isArray && length === 0)
    /\ v.t # "NaN"                              \* !Number.isNaN(filter.value)

\* One element [key, filter.value] of the appliedFilters array.
Pair(k, v) == [name |-> k, value |-> v]

\* Variant of getAppliedFilters that puts every new pair in front.
getAppliedFilters_newestFirst(m) ==
    LET kept == SelectSeq(m, LAMBDA p : IsApplied(p.filter.value))
    IN  [i \in 1..Len(kept) |-> Pair(kept[Len(kept) + 1 - i].key,
                                     kept[Len(kept) + 1 - i].filter.value)]

\* for (const [key, filter] of Object.entries(filters)) ... push([key, value])
getAppliedFilters(m) ==
    LET kept == SelectSeq(m, LAMBDA p : IsApplied(p.filter.value))
    IN  [i \in 1..Len(kept) |-> Pair(kept[i].key, kept[i].filter.value)]

\* Decimal text of a natural number, as String(n) gives it.
DigitText(d) ==
    CASE d = 0 -> "0" [] d = 1 -> "1" [] d = 2 -> "2" [] d = 3 -> "3"
      [] d = 4 -> "4" [] d = 5 -> "5" [] d = 6 -> "6" [] d = 7 -> "7"
      [] d = 8 -> "8" [] d = 9 -> "9"

RECURSIVE NatText(_)
NatText(n) == IF n < 10 THEN DigitText(n) ELSE NatText(n \div 10) \o DigitText(n % 10)

RECURSIVE JoinText(_, _)
JoinText(xs, sep) ==
    IF Len(xs) = 0 THEN ""
    ELSE IF Len(xs) = 1 THEN xs[1]
    ELSE xs[1] \o sep \o JoinText(Tail(xs), sep)

\* application/x-www-form-urlencoded form of one string of the model. The
\* serializer works character by character: '@' becomes %40, ',' becomes
\* %2C, ' ' becomes '+'; letters, digits and . - _ * stay as they are.
FormEncode(x) ==
    CASE x = "a@b.co" -> "a%40b.co"
      [] x = "a b" -> "a+b"
      [] OTHER -> x

\* What URLSearchParams.append(key, v) stores for v, already form-encoded:
\* a string as it is, a number or boolean by String(v), an array by
\* Array.prototype.toString (elements joined with ',').
ParamText(v) ==
    CASE v.t = "string" -> FormEncode(v.s)
      [] v.t = "number" -> NatText(v.n)
      [] v.t = "boolean" -> (IF v.n = 1 THEN "true" ELSE "false")
      [] v.t = "array" -> JoinText([i \in 1..Len(v.a) |-> FormEncode(v.a[i])], "%2C")
      [] v.t = "NaN" -> "NaN"
      [] v.t = "null" -> "null"
      [] v.t = "undefined" -> "undefined"

\* The loop of getQueryString: Object.entries(appliedFilters) enumerates the
\* ARRAY appliedFilters, so key is the index text "0", "1", ... and value is
\* the pair [name, filter.value]; the pair is an array, so the first branch
\* appends its two elements, the name and the value, under the index key.
QueryParams(applied) ==
    [j \in 1..(2 * Len(applied)) |->
        LET i == (j + 1) \div 2
        IN  IF j % 2 = 1
            THEN [k |-> NatText(i - 1), v |-> FormEncode(applied[i].name)]
            ELSE [k |-> NatText(i - 1), v |-> ParamText(applied[i].value)]]

\* Variant that always starts the string with the "?" of a URL.
ParamsToString_withQuestionMark(ps) ==
    "?" \o JoinText([j \in 1..Len(ps) |-> ps[j].k \o "=" \o ps[j].v], "&")

\* queryParams.toString()
ParamsToString(ps) == JoinText([j \in 1..Len(ps) |-> ps[j].k \o "=" \o ps[j].v], "&")

\* Variant of getQueryString that leaves out the filters applied internally.
getQueryString_withoutInternal(m) ==
    ParamsToString(QueryParams(getAppliedFilters(
        SelectSeq(m, LAMBDA p : ~p.filter.appliedInternally))))

getQueryString(m) == ParamsToString(QueryParams(getAppliedFilters(m)))

\* ------------------------------------------------------------ JSON blobs
\* A localStorage item: absent (getItem gives null), the empty string, text
\* that is not JSON, or the JSON text of an object, kept as the document it
\* denotes.
NoItem == [kind |-> "null", doc |-> <<>>]
EmptyText == [kind |-> "empty", doc |-> <<>>]
Malformed == [kind |-> "malformed", doc |-> <<>>]
JsonText(d) == [kind |-> "json", doc |-> d]

\* One member "key": {"value": ..., "isHidden": ..., "appliedInternally": ...}
\* of the JSON object; hasValue is FALSE when the "value" property is not
\* in the text.
JsonMember(k, hv, v, h, ai) ==
    [key |-> k, hasValue |-> hv, value |-> v, isHidden |-> h, appliedInternally |-> ai]

\* JSON.stringify of one value: NaN is written as null.
JsonValue(v) == IF v.t = "NaN" THEN Null ELSE v

\* JSON.stringify(filters): members in property order; a property whose
\* value is undefined is left out of the text.
JSONstringify(m) ==
    JsonText([i \in 1..Len(m) |->
        JsonMember(m[i].key,
                   m[i].filter.value.t # "undefined",
                   IF m[i].filter.value.t = "undefined" THEN Null
                   ELSE JsonValue(m[i].filter.value),
                   m[i].filter.isHidden,
                   m[i].filter.appliedInternally)])

\* JSON.parse throws SyntaxError on text that is not JSON.
ParseThrows(b) == b.kind = "malformed"

\* The object JSON.parse builds from the members of an object text, taken
\* in text order: each member defines a property of the object built so
\* far; reading .value of a member written without it gives undefined.
RECURSIVE ParseMembers(_, _)
ParseMembers(obj, members) ==
    IF Len(members) = 0 THEN obj
    ELSE ParseMembers(
           SpreadSet(obj, members[1].key,
                     FilterValue(IF members[1].hasValue THEN members[1].value ELSE Undefined,
                                 members[1].isHidden,
                                 members[1].appliedInternally)),
           Tail(members))

\* JSON.parse(text) of an object text.
JSONparse(b) == ParseMembers(<<>>, b.doc)

\* The filtersStoredAs argument: left out (undefined), or a string.
Omitted == [given |-> FALSE, text |-> ""]
StoredAs(k) == [given |-> TRUE, text |-> k]

\* Variant that uses the default key whatever filtersStoredAs is.
StorageKey_ignoresProp(storedAsProp) == "filters"

\* filtersStoredAs || "filters": undefined and "" are both falsy.
StorageKey(storedAsProp) ==
    IF ~storedAsProp.given \/ storedAsProp.text = "" THEN "filters" ELSE storedAsProp.text

\* ------------------------------------------------------------ the model
Insts == {"caller", "sheet"}          \* components that call useFilters
StorageKeys == {"filters", "segments"}
AllNames == {"status", "tags", "email", "2", "10"}

\* The values written for a name not (or no longer) in the mapping.
Unset == [present |-> FALSE, value |-> Undefined]
Written(v) == [present |-> TRUE, value |-> v]

\* One queued setFilters call.
SetUpdate(k, fv) == [op |-> "set", name |-> k, filter |-> fv]
RemoveUpdate(k) == [op |-> "remove", name |-> k, filter |-> FilterValue(Undefined, FALSE, FALSE)]
ClearUpdate == [op |-> "clear", name |-> "", filter |-> FilterValue(Undefined, FALSE, FALSE)]

\* The updater functions handed to setFilters.
ApplyUpdate(m, u) ==
    CASE u.op = "set" -> SpreadSet(m, u.name, u.filter)
      [] u.op = "remove" -> SpreadDelete(m, u.name)
      [] u.op = "clear" -> <<>>

RECURSIVE ApplyQueue(_, _)
ApplyQueue(m, q) == IF Len(q) = 0 THEN m ELSE ApplyQueue(ApplyUpdate(m, Head(q)), Tail(q))

VARIABLES
    storage,        \* localStorage: key -> item
    status,         \* per component: "unmounted", "mounted" or "crashed"
    storedAs,       \* per component: the filtersStoredAs argument
    filters,        \* per component: the committed useState value
    queue,          \* per component: setFilters calls not yet rendered
    effectPending,  \* per component: committed, passive effects not yet run
    lastWritten,    \* per component: name -> last value written by a call
    insertedOrder,  \* per component: the names present, in the order of the
                    \* calls that first set them since they were last absent
    persistedFrom,  \* key -> the mapping whose serialization the item holds
    lastOp,         \* the last step taken, and the component that took it
    ops,            \* number of mutation and reload events so far
    isOpen,         \* isFilterSheetOpen of the page, as committed
    openQueue,      \* setIsFilterSheetOpen calls not yet rendered
    form,           \* react-hook-form values of the sheet: name -> value
    formDefaults,   \* react-hook-form default values of the sheet
    errors,         \* formState.errors: the names that failed validation
    events,         \* what the last sheet handler called, in call order
    seenAtApply,    \* what the page could read while its onApply ran
    pageFilters,    \* the page's own filters state (applied pairs), committed
    pageFiltersQueue, \* the page's setFilters calls not yet rendered
    requests,       \* query strings of the data requests since the mount
    currentPage,       \* PaginationControls prop: the parent's page state
    totalPages,        \* PaginationControls prop
    maxVisibleButtons, \* PaginationControls prop
    showFirstLast,     \* PaginationControls prop
    showPrevNext,      \* PaginationControls prop
    pageChange,        \* the last onPageChange call: the control and the page
    dialogOpen,        \* per dialog: the parent's isOpen state
    dialogCalls        \* per dialog: the callbacks it has called, in call order

storeVars == <<storage, status, storedAs, filters, queue, effectPending,
               lastWritten, insertedOrder, persistedFrom>>
pageVars == <<pageFilters, pageFiltersQueue, requests>>
pagerVars == <<currentPage, totalPages, maxVisibleButtons, showFirstLast,
               showPrevNext, pageChange>>
dialogVars == <<dialogOpen, dialogCalls>>
widgetVars == <<pagerVars, dialogVars>>
sheetVars == <<isOpen, openQueue, form, formDefaults, errors, events, seenAtApply,
               pageVars, widgetVars>>
filterVars == <<storeVars, isOpen, openQueue, form, formDefaults, errors, events,
                seenAtApply, pageVars>>
vars == <<storeVars, lastOp, ops, sheetVars>>

Op(name, i) == [op |-> name, i |-> i]

\* name -> last written value, for a mapping just loaded
WrittenOf(m) ==
    [k \in AllNames |-> IF k \in Keys(m) THEN Written(m[IndexOf(m, k)].filter.value)
                        ELSE Unset]

NoneWritten == [k \in AllNames |-> Unset]

\* The names of a mapping just loaded, in the order of the stored text.
KeySeq(m) == [j \in 1..Len(m) |-> m[j].key]

\* The order of first insertion after one more setFilterValue(name, ...).
InsertedAfterSet(o, name) ==
    IF \E j \in 1..Len(o) : o[j] = name THEN o ELSE Append(o, name)

\* ------------------------------------------------------ useFilters steps
\* useState initializer: getItem, then JSON.parse unless the item is falsy.
\* A SyntaxError thrown while rendering has no error boundary to stop at:
\* React unmounts the root. A component mounts in a render of the root, so
\* after the passive effects of the previous commit have run.
InitialFilters(item) == IF item.kind \in {"null", "empty"} THEN <<>> ELSE JSONparse(item)

MountHook(i, key) ==
    /\ status[i] = "unmounted"
    /\ \A j \in Insts : ~effectPending[j]
    /\ storedAs' = [storedAs EXCEPT ![i] = key]
    /\ LET item == storage[StorageKey(key)]
       IN  IF item.kind \notin {"null", "empty"} /\ ParseThrows(item)
           THEN /\ status' = [status EXCEPT ![i] = "crashed"]
                /\ UNCHANGED <<filters, effectPending, lastWritten, insertedOrder>>
           ELSE /\ status' = [status EXCEPT ![i] = "mounted"]
                /\ filters' = [filters EXCEPT ![i] = InitialFilters(item)]
                /\ effectPending' = [effectPending EXCEPT ![i] = TRUE]
                /\ lastWritten' = [lastWritten EXCEPT ![i] = WrittenOf(InitialFilters(item))]
                /\ insertedOrder' = [insertedOrder EXCEPT ![i] = KeySeq(InitialFilters(item))]
    /\ UNCHANGED <<storage, queue, persistedFrom>>

\* setFilters(updater): React queues the update; filters changes at the
\* next render.
Enqueue(i, u) ==
    /\ status[i] = "mounted"
    /\ queue' = [queue EXCEPT ![i] = Append(@, u)]
    /\ UNCHANGED <<storage, status, storedAs, filters, effectPending, persistedFrom>>

setFilterValue(i, name, value, hidden, internally) ==
    /\ Enqueue(i, SetUpdate(name, FilterValue(value, hidden, internally)))
    /\ lastWritten' = [lastWritten EXCEPT ![i][name] = Written(value)]
    /\ insertedOrder' = [insertedOrder EXCEPT ![i] = InsertedAfterSet(@, name)]

\* Variant of the defaults in which isHidden defaults to true.
setFilterValueOmitted_hiddenByDefault(i, name, value) ==
    setFilterValue(i, name, value, TRUE, FALSE)

\* setFilterValue(name, value): isHidden = false and appliedInternally =
\* false are the defaults of the two parameters left out.
setFilterValueOmitted(i, name, value) == setFilterValue(i, name, value, FALSE, FALSE)

removeFilter(i, name) ==
    /\ Enqueue(i, RemoveUpdate(name))
    /\ lastWritten' = [lastWritten EXCEPT ![i][name] = Unset]
    /\ insertedOrder' = [insertedOrder EXCEPT ![i] = SelectSeq(@, LAMBDA n : n # name)]

clearFilters(i) ==
    /\ Enqueue(i, ClearUpdate)
    /\ lastWritten' = [lastWritten EXCEPT ![i] = NoneWritten]
    /\ insertedOrder' = [insertedOrder EXCEPT ![i] = <<>>]

\* A render of the root: every component with queued updates gets its new
\* state. React runs the passive effects of the previous commit before it
\* renders again.
RenderStores ==
    /\ \A i \in Insts : ~effectPending[i]
    /\ filters' = [i \in Insts |->
                     IF status[i] = "mounted" /\ Len(queue[i]) > 0
                     THEN ApplyQueue(filters[i], queue[i]) ELSE filters[i]]
    /\ effectPending' = [i \in Insts |-> status[i] = "mounted" /\ Len(queue[i]) > 0]
    /\ queue' = [i \in Insts |-> <<>>]
    /\ UNCHANGED <<storage, status, storedAs, lastWritten, insertedOrder, persistedFrom>>

\* Variant of the write that always uses the default key.
SetItem_defaultKey(st, i) == [st EXCEPT !["filters"] = JSONstringify(filters[i])]

\* localStorage after the setItem call of component i's persistence effect.
SetItem(st, i) == [st EXCEPT ![StorageKey(storedAs[i])] = JSONstringify(filters[i])]

\* Variant of the effect that writes the applied entries only.
PersistEffect_appliedOnly(i) ==
    /\ status[i] = "mounted"
    /\ effectPending[i]
    /\ storage' = [storage EXCEPT ![StorageKey(storedAs[i])] =
                     JSONstringify(SelectSeq(filters[i], LAMBDA p : IsApplied(p.filter.value)))]
    /\ persistedFrom' = [persistedFrom EXCEPT ![StorageKey(storedAs[i])] = filters[i]]
    /\ effectPending' = [effectPending EXCEPT ![i] = FALSE]
    /\ UNCHANGED <<status, storedAs, filters, queue, lastWritten, insertedOrder>>

\* useEffect(() => localStorage.setItem(key, JSON.stringify(filters)))
PersistEffect(i) ==
    /\ status[i] = "mounted"
    /\ effectPending[i]
    /\ storage' = SetItem(storage, i)
    /\ persistedFrom' = [persistedFrom EXCEPT ![StorageKey(storedAs[i])] = filters[i]]
    /\ effectPending' = [effectPending EXCEPT ![i] = FALSE]
    /\ UNCHANGED <<status, storedAs, filters, queue, lastWritten, insertedOrder>>

\* The same effect when setItem throws (quota exceeded, storage disabled):
\* nothing catches it, React unmounts the root and the hook's state is gone.
PersistEffectThrows(i) ==
    /\ status[i] = "mounted"
    /\ effectPending[i]
    /\ status' = [status EXCEPT ![i] = "crashed"]
    /\ filters' = [filters EXCEPT ![i] = <<>>]
    /\ queue' = [queue EXCEPT ![i] = <<>>]
    /\ effectPending' = [effectPending EXCEPT ![i] = FALSE]
    /\ UNCHANGED <<storage, storedAs, lastWritten, insertedOrder, persistedFrom>>

\* The page is closed or reloaded: component state is lost, storage stays.
UnmountHook(i) ==
    /\ status[i] # "unmounted"
    /\ status' = [status EXCEPT ![i] = "unmounted"]
    /\ filters' = [filters EXCEPT ![i] = <<>>]
    /\ queue' = [queue EXCEPT ![i] = <<>>]
    /\ effectPending' = [effectPending EXCEPT ![i] = FALSE]
    /\ lastWritten' = [lastWritten EXCEPT ![i] = NoneWritten]
    /\ insertedOrder' = [insertedOrder EXCEPT ![i] = <<>>]
    /\ UNCHANGED <<storage, storedAs, persistedFrom>>

\* ---------------------------------------------- a component using the hook
\* The inputs of the store specification.
StoreNames == {"status", "tags"}
StoreValues == {Str("active"), Str(""), Arr(<<"a", "b">>), Arr(<<>>),
                Num(0), NaN, Bool(FALSE), Null, Undefined}
StoreFlags == {<<FALSE, FALSE>>, <<TRUE, TRUE>>}

\* Mappings an earlier session can have left in localStorage.
SavedMappings ==
    { <<>>,
      << Prop("status", FilterValue(Str("active"), FALSE, FALSE)) >>,
      << Prop("tags", FilterValue(Arr(<<"a", "b">>), TRUE, TRUE)),
         Prop("status", FilterValue(NaN, FALSE, FALSE)) >> }

\* What the page can read while its onApply callback runs: the data it is
\* handed, the sheet store's mapping, the open flag and the stored item.
NothingSeen == [called |-> FALSE, data |-> NoneWritten, mapping |-> <<>>,
                open |-> FALSE, item |-> NoItem, requests |-> 0]

\* Bounds of the pagination: the largest totalPages and maxVisibleButtons.
MaxPages == 8
MaxButtons == 5

\* Bound of the dialogs: the number of presses.
MaxPresses == 3

\* The two dialogs of the page.
Dialogs == {"DeleteDialog", "ExportDialog"}

\* No control of the pagination pressed yet.
NoPageChange == [control |-> "none", page |-> 0]

\* The table of the page as ExampleForm first renders it: page 1 of 5, the
\* defaults of PaginationControls, both dialogs closed.
WidgetsIdle ==
    /\ currentPage = 1
    /\ totalPages = 5
    /\ maxVisibleButtons = 5
    /\ showFirstLast = FALSE
    /\ showPrevNext = TRUE
    /\ pageChange = NoPageChange
    /\ dialogOpen = [d \in Dialogs |-> FALSE]
    /\ dialogCalls = [d \in Dialogs |-> <<>>]

SheetIdle ==
    /\ isOpen = FALSE
    /\ openQueue = <<>>
    /\ form = NoneWritten
    /\ formDefaults = NoneWritten
    /\ errors = {}
    /\ events = <<>>
    /\ seenAtApply = NothingSeen
    /\ pageFilters = <<>>
    /\ pageFiltersQueue = <<>>
    /\ requests = <<>>

StoreInitWith(item, from) ==
    /\ storage = [k \in StorageKeys |-> IF k = "filters" THEN item ELSE NoItem]
    /\ persistedFrom = [k \in StorageKeys |-> IF k = "filters" THEN from ELSE <<>>]
    /\ status = [i \in Insts |-> "unmounted"]
    /\ storedAs = [i \in Insts |-> Omitted]
    /\ filters = [i \in Insts |-> <<>>]
    /\ queue = [i \in Insts |-> <<>>]
    /\ effectPending = [i \in Insts |-> FALSE]
    /\ lastWritten = [i \in Insts |-> NoneWritten]
    /\ insertedOrder = [i \in Insts |-> <<>>]
    /\ lastOp = Op("init", "caller")
    /\ ops = 0
    /\ SheetIdle

InitWith(item, from) == StoreInitWith(item, from) /\ WidgetsIdle

Init ==
    \/ \E item \in {NoItem, EmptyText, Malformed} : InitWith(item, <<>>)
    \/ \E m \in SavedMappings : InitWith(JSONstringify(m), m)

CallerMount ==
    /\ MountHook("caller", Omitted)
    /\ lastOp' = Op("mount", "caller")
    /\ UNCHANGED <<ops, sheetVars>>

CallerSetFilterValue ==
    /\ ops < MaxOps
    /\ \E name \in StoreNames, value \in StoreValues, fl \in StoreFlags :
          setFilterValue("caller", name, value, fl[1], fl[2])
    /\ lastOp' = Op("setFilterValue", "caller")
    /\ ops' = ops + 1
    /\ UNCHANGED sheetVars

CallerRemoveFilter ==
    /\ ops < MaxOps
    /\ \E name \in StoreNames : removeFilter("caller", name)
    /\ lastOp' = Op("removeFilter", "caller")
    /\ ops' = ops + 1
    /\ UNCHANGED sheetVars

CallerClearFilters ==
    /\ ops < MaxOps
    /\ clearFilters("caller")
    /\ lastOp' = Op("clearFilters", "caller")
    /\ ops' = ops + 1
    /\ UNCHANGED sheetVars

CallerRender ==
    /\ Len(queue["caller"]) > 0
    /\ RenderStores
    /\ lastOp' = Op("render", "caller")
    /\ UNCHANGED <<ops, sheetVars>>

CallerPersist ==
    /\ PersistEffect("caller")
    /\ lastOp' = Op("setItem", "caller")
    /\ UNCHANGED <<ops, sheetVars>>

CallerPersistThrows ==
    /\ PersistEffectThrows("caller")
    /\ lastOp' = Op("setItemThrows", "caller")
    /\ UNCHANGED <<ops, sheetVars>>

CallerUnmount ==
    /\ ops < MaxOps
    /\ UnmountHook("caller")
    /\ lastOp' = Op("unmount", "caller")
    /\ ops' = ops + 1
    /\ UNCHANGED sheetVars

Next ==
    \/ CallerMount
    \/ CallerSetFilterValue
    \/ CallerRemoveFilter
    \/ CallerClearFilters
    \/ CallerRender
    \/ CallerPersist
    \/ CallerPersistThrows
    \/ CallerUnmount

Spec == Init /\ [][Next]_vars

\* ------------------------------------- the same component, other filter names
\* Calls whose names include names that are array indices, with the two
\* flags given or left out.
OrderNames == {"status", "tags", "10"}
OrderValues == {Str("active"), Str("")}
OrderFlags == {<<TRUE, FALSE>>}

OrderSavedMappings ==
    { <<>>,
      << Prop("tags", FilterValue(Arr(<<"a", "b">>), FALSE, FALSE)),
         Prop("status", FilterValue(Str("active"), FALSE, FALSE)) >>,
      << Prop("2", FilterValue(Str("active"), FALSE, FALSE)),
         Prop("status", FilterValue(Str(""), FALSE, FALSE)) >> }

OrderInit == \E m \in OrderSavedMappings : InitWith(JSONstringify(m), m)

OrderSetFilterValue ==
    /\ ops < MaxOps
    /\ \E name \in OrderNames, value \in OrderValues :
          setFilterValueOmitted("caller", name, value)
    /\ lastOp' = Op("setFilterValueOmitted", "caller")
    /\ ops' = ops + 1
    /\ UNCHANGED sheetVars

OrderSetFilterValueFlags ==
    /\ ops < MaxOps
    /\ \E name \in OrderNames, value \in OrderValues, fl \in OrderFlags :
          setFilterValue("caller", name, value, fl[1], fl[2])
    /\ lastOp' = Op("setFilterValue", "caller")
    /\ ops' = ops + 1
    /\ UNCHANGED sheetVars

OrderRemoveFilter ==
    /\ ops < MaxOps
    /\ \E name \in OrderNames : removeFilter("caller", name)
    /\ lastOp' = Op("removeFilter", "caller")
    /\ ops' = ops + 1
    /\ UNCHANGED sheetVars

OrderNext ==
    \/ CallerMount
    \/ OrderSetFilterValue
    \/ OrderSetFilterValueFlags
    \/ OrderRemoveFilter
    \/ CallerClearFilters
    \/ CallerRender
    \/ CallerPersist
    \/ CallerPersistThrows
    \/ CallerUnmount

OrderSpec == OrderInit /\ [][OrderNext]_vars

\* ------------------------------------ two components with different keys
\* Component "caller" calls useFilters() and component "sheet" calls
\* useFilters("segments"), in the same root.
IsoStoredAs == [i \in Insts |-> IF i = "caller" THEN Omitted ELSE StoredAs("segments")]
IsoNames == {"status", "tags"}
IsoValues == {Str("active"), Str("")}

IsoSavedMappings ==
    { <<>>,
      << Prop("status", FilterValue(Str("active"), FALSE, FALSE)) >> }

IsoInit ==
    /\ \E a \in IsoSavedMappings, b \in IsoSavedMappings :
          /\ persistedFrom = [k \in StorageKeys |-> IF k = "filters" THEN a ELSE b]
          /\ \E items \in [StorageKeys -> {"none", "json"}] :
                storage = [k \in StorageKeys |->
                             IF items[k] = "none" /\ persistedFrom[k] = <<>> THEN NoItem
                             ELSE JSONstringify(persistedFrom[k])]
    /\ status = [i \in Insts |-> "unmounted"]
    /\ storedAs = IsoStoredAs
    /\ filters = [i \in Insts |-> <<>>]
    /\ queue = [i \in Insts |-> <<>>]
    /\ effectPending = [i \in Insts |-> FALSE]
    /\ lastWritten = [i \in Insts |-> NoneWritten]
    /\ insertedOrder = [i \in Insts |-> <<>>]
    /\ lastOp = Op("init", "root")
    /\ ops = 0
    /\ SheetIdle
    /\ WidgetsIdle

IsoMount ==
    /\ \E i \in Insts :
          /\ MountHook(i, IsoStoredAs[i])
          /\ lastOp' = Op("mount", i)
    /\ UNCHANGED <<ops, sheetVars>>

IsoSetFilterValue ==
    /\ ops < MaxOps
    /\ \E i \in Insts, name \in IsoNames, value \in IsoValues :
          /\ setFilterValueOmitted(i, name, value)
          /\ lastOp' = Op("setFilterValueOmitted", i)
    /\ ops' = ops + 1
    /\ UNCHANGED sheetVars

IsoRemoveFilter ==
    /\ ops < MaxOps
    /\ \E i \in Insts, name \in IsoNames :
          /\ removeFilter(i, name)
          /\ lastOp' = Op("removeFilter", i)
    /\ ops' = ops + 1
    /\ UNCHANGED sheetVars

IsoClearFilters ==
    /\ ops < MaxOps
    /\ \E i \in Insts :
          /\ clearFilters(i)
          /\ lastOp' = Op("clearFilters", i)
    /\ ops' = ops + 1
    /\ UNCHANGED sheetVars

IsoRender ==
    /\ \E i \in Insts : Len(queue[i]) > 0
    /\ RenderStores
    /\ lastOp' = Op("render", "root")
    /\ UNCHANGED <<ops, sheetVars>>

IsoPersist ==
    /\ \E i \in Insts :
          /\ PersistEffect(i)
          /\ lastOp' = Op("setItem", i)
    /\ UNCHANGED <<ops, sheetVars>>

\* setItem throws in the effect of one of the two: the root is unmounted,
\* and the other component with it.
IsoPersistThrows ==
    /\ \E i \in Insts :
          /\ status[i] = "mounted"
          /\ effectPending[i]
          /\ lastOp' = Op("setItemThrows", i)
    /\ status' = [i \in Insts |-> IF status[i] = "mounted" THEN "crashed" ELSE status[i]]
    /\ filters' = [i \in Insts |-> <<>>]
    /\ queue' = [i \in Insts |-> <<>>]
    /\ effectPending' = [i \in Insts |-> FALSE]
    /\ UNCHANGED <<storage, storedAs, lastWritten, insertedOrder, persistedFrom, ops, sheetVars>>

IsoUnmount ==
    /\ ops < MaxOps
    /\ \E i \in Insts :
          /\ UnmountHook(i)
          /\ lastOp' = Op("unmount", i)
    /\ ops' = ops + 1
    /\ UNCHANGED sheetVars

IsoNext ==
    \/ IsoMount
    \/ IsoSetFilterValue
    \/ IsoRemoveFilter
    \/ IsoClearFilters
    \/ IsoRender
    \/ IsoPersist
    \/ IsoPersistThrows
    \/ IsoUnmount

IsoSpec == IsoInit /\ [][IsoNext]_vars

\* --------------------------------- one component, its key given or changed
\* The component is created without filtersStoredAs, with "" or with
\* "segments", and a later render can hand it another filtersStoredAs.
KeyArgs == {Omitted, StoredAs(""), StoredAs("segments")}

KeyInit ==
    /\ \E a \in IsoSavedMappings, b \in IsoSavedMappings :
          /\ persistedFrom = [k \in StorageKeys |-> IF k = "filters" THEN a ELSE b]
          /\ \E items \in [StorageKeys -> {"none", "json"}] :
                storage = [k \in StorageKeys |->
                             IF items[k] = "none" /\ persistedFrom[k] = <<>> THEN NoItem
                             ELSE JSONstringify(persistedFrom[k])]
    /\ status = [i \in Insts |-> "unmounted"]
    /\ storedAs = [i \in Insts |-> Omitted]
    /\ filters = [i \in Insts |-> <<>>]
    /\ queue = [i \in Insts |-> <<>>]
    /\ effectPending = [i \in Insts |-> FALSE]
    /\ lastWritten = [i \in Insts |-> NoneWritten]
    /\ insertedOrder = [i \in Insts |-> <<>>]
    /\ lastOp = Op("init", "caller")
    /\ ops = 0
    /\ SheetIdle
    /\ WidgetsIdle

KeyMount ==
    /\ \E arg \in KeyArgs : MountHook("caller", arg)
    /\ lastOp' = Op("mount", "caller")
    /\ UNCHANGED <<ops, sheetVars>>

KeySetFilterValue ==
    /\ ops < MaxOps
    /\ \E name \in IsoNames, value \in IsoValues :
          setFilterValueOmitted("caller", name, value)
    /\ lastOp' = Op("setFilterValueOmitted", "caller")
    /\ ops' = ops + 1
    /\ UNCHANGED sheetVars

\* Variant of the render in which the mapping is read again, from the item
\* under the new key.
KeyChange_reloads ==
    /\ ops < MaxOps
    /\ status["caller"] = "mounted"
    /\ \A i \in Insts : ~effectPending[i]
    /\ \E arg \in KeyArgs \ {storedAs["caller"]} :
          /\ storedAs' = [storedAs EXCEPT !["caller"] = arg]
          /\ filters' = [filters EXCEPT !["caller"] = InitialFilters(storage[StorageKey(arg)])]
    /\ effectPending' = [effectPending EXCEPT !["caller"] = TRUE]
    /\ queue' = [queue EXCEPT !["caller"] = <<>>]
    /\ lastOp' = Op("keyChange", "caller")
    /\ ops' = ops + 1
    /\ UNCHANGED <<storage, status, lastWritten, insertedOrder, persistedFrom, sheetVars>>

\* A render in which the component is handed another filtersStoredAs: the
\* useState initializer does not run again, the queued updates are
\* committed, and the persistence effect is due because filtersStoredAs
\* is one of its dependencies.
KeyChange ==
    /\ ops < MaxOps
    /\ status["caller"] = "mounted"
    /\ \A i \in Insts : ~effectPending[i]
    /\ \E arg \in KeyArgs \ {storedAs["caller"]} :
          storedAs' = [storedAs EXCEPT !["caller"] = arg]
    /\ filters' = [filters EXCEPT !["caller"] = ApplyQueue(@, queue["caller"])]
    /\ effectPending' = [effectPending EXCEPT !["caller"] = TRUE]
    /\ queue' = [queue EXCEPT !["caller"] = <<>>]
    /\ lastOp' = Op("keyChange", "caller")
    /\ ops' = ops + 1
    /\ UNCHANGED <<storage, status, lastWritten, insertedOrder, persistedFrom, sheetVars>>

KeyNext ==
    \/ KeyMount
    \/ KeySetFilterValue
    \/ KeyChange
    \/ CallerClearFilters
    \/ CallerRender
    \/ CallerPersist
    \/ CallerPersistThrows
    \/ CallerUnmount

KeySpec == KeyInit /\ [][KeyNext]_vars

\* ------------------------------------------- two components, the same key
\* Both components call useFilters() without filtersStoredAs, as ExampleForm
\* and FiltersSheet do, and both set filters.
SharedInit ==
    \/ InitWith(NoItem, <<>>)
    \/ \E m \in IsoSavedMappings : InitWith(JSONstringify(m), m)

SharedMount ==
    /\ \E i \in Insts :
          /\ MountHook(i, Omitted)
          /\ lastOp' = Op("mount", i)
    /\ UNCHANGED <<ops, sheetVars>>

SharedNext ==
    \/ SharedMount
    \/ IsoSetFilterValue
    \/ IsoRender
    \/ IsoPersist
    \/ IsoPersistThrows
    \/ IsoUnmount

SharedSpec == SharedInit /\ [][SharedNext]_vars

\* ------------------------------------------------------ PaginationControls
\* An entry of pageNumbers: a page number, or the string "...".
PageEntry(n) == [page |-> n, ellipsis |-> FALSE]
Ellipsis == [page |-> 0, ellipsis |-> TRUE]

Max(a, b) == IF a > b THEN a ELSE b
Min(a, b) == IF a < b THEN a ELSE b

\* Variant that puts page 1 in front of the window whatever currentPage is.
pageNumbers_alwaysFirst(cur, total, maxVisible) ==
    IF total <= maxVisible
    THEN [j \in 1..total |-> PageEntry(j)]
    ELSE LET leftSide == maxVisible \div 2
             rightSide == maxVisible - leftSide - 1
             lo == Max(1, cur - leftSide)
             hi == Min(total, cur + rightSide)
         IN  <<PageEntry(1)>>
             \o (IF cur > leftSide + 2 THEN <<Ellipsis>> ELSE <<>>)
             \o [j \in 1..(hi - lo + 1) |-> PageEntry(lo + j - 1)]
             \o (IF cur < total - rightSide
                 THEN (IF cur < total - rightSide - 1 THEN <<Ellipsis>> ELSE <<>>)
                      \o <<PageEntry(total)>>
                 ELSE <<>>)

\* The useMemo of pageNumbers.
pageNumbers(cur, total, maxVisible) ==
    IF total <= maxVisible
    THEN [j \in 1..total |-> PageEntry(j)]
    ELSE LET leftSide == maxVisible \div 2
             rightSide == maxVisible - leftSide - 1
             lo == Max(1, cur - leftSide)
             hi == Min(total, cur + rightSide)
         IN  (IF cur > leftSide + 1
              THEN <<PageEntry(1)>> \o (IF cur > leftSide + 2 THEN <<Ellipsis>> ELSE <<>>)
              ELSE <<>>)
             \o [j \in 1..(hi - lo + 1) |-> PageEntry(lo + j - 1)]
             \o (IF cur < total - rightSide
                 THEN (IF cur < total - rightSide - 1 THEN <<Ellipsis>> ELSE <<>>)
                      \o <<PageEntry(total)>>
                 ELSE <<>>)

\* The pages the parent's state is let run to when a control hands it a
\* page outside 1..totalPages.
PageRange == (0 - 1)..(MaxPages + 1)

\* onPageChange(page) from a control: the parent is ExampleForm's
\* onPageChange={setCurrentPage}, and its next render hands the page back
\* as currentPage.
onPageChange(control, page) ==
    /\ page \in PageRange
    /\ pageChange' = [control |-> control, page |-> page]
    /\ currentPage' = page
    /\ UNCHANGED <<totalPages, maxVisibleButtons, showFirstLast, showPrevNext>>
    /\ UNCHANGED <<filterVars, lastOp, ops, dialogVars>>

PageInit ==
    /\ StoreInitWith(NoItem, <<>>)
    /\ totalPages \in 0..MaxPages
    /\ currentPage \in 1..Max(1, totalPages)
    /\ maxVisibleButtons \in 1..MaxButtons
    /\ showFirstLast \in BOOLEAN
    /\ showPrevNext \in BOOLEAN
    /\ pageChange = NoPageChange
    /\ dialogOpen = [d \in Dialogs |-> FALSE]
    /\ dialogCalls = [d \in Dialogs |-> <<>>]

ClickFirst ==
    /\ showFirstLast
    /\ ~(currentPage = 1)
    /\ onPageChange("First", 1)

ClickPrevious ==
    /\ showPrevNext
    /\ ~(currentPage = 1)
    /\ onPageChange("Previous", currentPage - 1)

ClickPage ==
    \E j \in 1..Len(pageNumbers(currentPage, totalPages, maxVisibleButtons)) :
        LET entry == pageNumbers(currentPage, totalPages, maxVisibleButtons)[j]
        IN  /\ ~entry.ellipsis
            /\ onPageChange("page", entry.page)

ClickNext ==
    /\ showPrevNext
    /\ ~(currentPage = totalPages)
    /\ onPageChange("Next", currentPage + 1)

ClickLast ==
    /\ showFirstLast
    /\ ~(currentPage = totalPages)
    /\ onPageChange("Last", totalPages)

PageNext ==
    \/ ClickFirst
    \/ ClickPrevious
    \/ ClickPage
    \/ ClickNext
    \/ ClickLast

PageSpec == PageInit /\ [][PageNext]_vars

\* ------------------------------------------- DeleteDialog and ExportDialog
\* The parent's callbacks, as the page passes them: onClose sets the isOpen
\* state of the dialog to false, and onConfirm (handleDelete, handleExport)
\* does its work and sets it to false as well.
CallbacksOf(d, names) ==
    /\ dialogCalls' = [dialogCalls EXCEPT ![d] = @ \o names]
    /\ dialogOpen' = [dialogOpen EXCEPT ![d] = FALSE]

DialogInit ==
    /\ StoreInitWith(NoItem, <<>>)
    /\ WidgetsIdle

\* The button of the page that opens a dialog. The dialogs are modal: the
\* page cannot be pressed while one of them is open.
OpenDialog ==
    /\ \A e \in Dialogs : ~dialogOpen[e]
    /\ \E d \in Dialogs :
          /\ dialogOpen' = [dialogOpen EXCEPT ![d] = TRUE]
          /\ lastOp' = Op("open", d)
    /\ UNCHANGED <<filterVars, ops, pagerVars, dialogCalls>>

\* Variant of the confirm button that closes before it confirms.
PressConfirm_closesFirst ==
    /\ ops < MaxPresses
    /\ \E d \in Dialogs :
          /\ dialogOpen[d]
          /\ CallbacksOf(d, <<"onClose", "onConfirm">>)
          /\ lastOp' = Op("confirm", d)
    /\ ops' = ops + 1
    /\ UNCHANGED <<filterVars, pagerVars>>

\* The confirm button: onClick={() => { onConfirm(); onClose(); }}
PressConfirm ==
    /\ ops < MaxPresses
    /\ \E d \in Dialogs :
          /\ dialogOpen[d]
          /\ CallbacksOf(d, <<"onConfirm", "onClose">>)
          /\ lastOp' = Op("confirm", d)
    /\ ops' = ops + 1
    /\ UNCHANGED <<filterVars, pagerVars>>

\* The cancel button: onClick={onClose}
PressCancel ==
    /\ ops < MaxPresses
    /\ \E d \in Dialogs :
          /\ dialogOpen[d]
          /\ CallbacksOf(d, <<"onClose">>)
          /\ lastOp' = Op("cancel", d)
    /\ ops' = ops + 1
    /\ UNCHANGED <<filterVars, pagerVars>>

\* Escape, a press outside the dialog or its close button:
\* onOpenChange={onClose}
DismissDialog ==
    /\ ops < MaxPresses
    /\ \E d \in Dialogs :
          /\ dialogOpen[d]
          /\ CallbacksOf(d, <<"onClose">>)
          /\ lastOp' = Op("dismiss", d)
    /\ ops' = ops + 1
    /\ UNCHANGED <<filterVars, pagerVars>>

DialogNext ==
    \/ OpenDialog
    \/ PressConfirm
    \/ PressCancel
    \/ DismissDialog

DialogSpec == DialogInit /\ [][DialogNext]_vars

\* ------------------------------------------ one component that also reads
\* Variant of the reads in which getAppliedFilters also drops the entries
\* that are not applied from the mapping.
CallerRead_prunes ==
    /\ ops < MaxOps
    /\ status["caller"] = "mounted"
    /\ pageFilters' = getAppliedFilters(filters["caller"])
    /\ requests' = Append(requests, getQueryString(filters["caller"]))
    /\ filters' = [filters EXCEPT
                     !["caller"] = SelectSeq(@, LAMBDA p : IsApplied(p.filter.value))]
    /\ lastOp' = Op("read", "caller")
    /\ ops' = ops + 1
    /\ UNCHANGED <<storage, status, storedAs, queue, effectPending, lastWritten,
                   insertedOrder, persistedFrom, isOpen, openQueue, form,
                   formDefaults, errors, events, seenAtApply, pageFiltersQueue>>
    /\ UNCHANGED widgetVars

\* The component calls getAppliedFilters() and getQueryString() of its
\* last render and keeps what they return, as ExampleForm does for its
\* list of filters and for the query string of its request.
CallerRead ==
    /\ ops < MaxOps
    /\ status["caller"] = "mounted"
    /\ pageFilters' = getAppliedFilters(filters["caller"])
    /\ requests' = Append(requests, getQueryString(filters["caller"]))
    /\ filters' = filters
    /\ lastOp' = Op("read", "caller")
    /\ ops' = ops + 1
    /\ UNCHANGED <<storage, status, storedAs, queue, effectPending, lastWritten,
                   insertedOrder, persistedFrom, isOpen, openQueue, form,
                   formDefaults, errors, events, seenAtApply, pageFiltersQueue>>
    /\ UNCHANGED widgetVars

ReadNext ==
    \/ CallerMount
    \/ OrderSetFilterValueFlags
    \/ OrderRemoveFilter
    \/ CallerRead
    \/ CallerRender
    \/ CallerPersist
    \/ CallerPersistThrows
    \/ CallerUnmount

ReadSpec == OrderInit /\ [][ReadNext]_vars

\* ------------------------------------------- ExampleForm and FiltersSheet
\* The page (component "caller") calls useFilters() and renders FiltersSheet
\* (component "sheet"), which calls useFilters(filtersStoredAs) with no
\* filtersStoredAs: both hooks use the key "filters".

\* filtersSchema, restricted to the fields of the model, in shape order.
SchemaNames == <<"email", "status">>
SchemaKeys == {SchemaNames[j] : j \in 1..Len(SchemaNames)}

\* The strings of the model that z.string().email() accepts.
IsEmail(x) == x \in {"a@b.co"}

\* Does the field schema accept the value? Every field is .optional():
\* undefined passes, null does not.
FieldAccepts(k, v) ==
    CASE k = "email" -> v.t = "undefined" \/ (v.t = "string" /\ IsEmail(v.s))
      [] k = "status" -> v.t \in {"undefined", "string", "array"}
      [] OTHER -> TRUE

\* The resolver's errors: the schema fields whose value does not parse (a
\* field missing from the values is undefined).
SchemaErrors(values) ==
    {k \in SchemaKeys : values[k].present /\ ~FieldAccepts(k, values[k].value)}

\* The resolver's values when there is no error: z.object() strips the
\* keys that are not in the shape.
SchemaData(values) == [k \in AllNames |-> IF k \in SchemaKeys THEN values[k] ELSE Unset]

\* Object.entries(data): zod builds its output in shape order.
DataEntries(data) ==
    LET kept == SelectSeq(SchemaNames, LAMBDA k : data[k].present)
    IN  [j \in 1..Len(kept) |-> Pair(kept[j], data[kept[j]].value)]

\* Object.fromEntries(Object.entries(filters).map(([key, filter]) =>
\* [key, filter.value])): the values the form is seeded and reset with.
FormValuesOf(m) == WrittenOf(m)

\* What a user can put in the fields the sheet renders.
FieldInputs(k) ==
    CASE k = "email" -> {Str("a@b.co"), Str("bad")}
      [] k = "status" -> {Str("active"), Str("")}

\* One call made by a handler of the sheet.
Call(c, k, v) == [call |-> c, name |-> k, value |-> v]
CallbackOnly(c) == Call(c, "", Undefined)

Mounted == \A i \in Insts : status[i] = "mounted"

\* First render of the page and of the sheet below it. A throw in either
\* useState initializer (they read the same item) unmounts the root. The
\* page seeds its own filters state with getAppliedFilters() of its hook.
AppMount ==
    /\ \A i \in Insts : status[i] = "unmounted"
    /\ storedAs' = [i \in Insts |-> Omitted]
    /\ LET item == storage[StorageKey(Omitted)]
       IN  IF item.kind \notin {"null", "empty"} /\ ParseThrows(item)
           THEN /\ status' = [i \in Insts |-> "crashed"]
                /\ UNCHANGED <<filters, effectPending, lastWritten, insertedOrder, form, formDefaults,
                               pageFilters>>
           ELSE /\ status' = [i \in Insts |-> "mounted"]
                /\ pageFilters' = getAppliedFilters(InitialFilters(item))
                /\ filters' = [i \in Insts |-> InitialFilters(item)]
                /\ effectPending' = [i \in Insts |-> TRUE]
                /\ lastWritten' = [i \in Insts |-> WrittenOf(InitialFilters(item))]
                /\ insertedOrder' = [i \in Insts |-> KeySeq(InitialFilters(item))]
                /\ form' = FormValuesOf(InitialFilters(item))
                /\ formDefaults' = FormValuesOf(InitialFilters(item))
    /\ lastOp' = Op("mount", "sheet")
    /\ UNCHANGED <<storage, queue, persistedFrom, ops, isOpen, openQueue, errors,
                   events, seenAtApply, pageFiltersQueue, requests>>
    /\ UNCHANGED widgetVars

\* onClick of the "Open Filters" button: setIsFilterSheetOpen(true)
OpenRequest ==
    /\ Mounted
    /\ ~isOpen
    /\ openQueue = <<>>
    /\ openQueue' = Append(openQueue, TRUE)
    /\ lastOp' = Op("openRequest", "caller")
    /\ UNCHANGED <<storeVars, ops, isOpen, form, formDefaults, errors, events, seenAtApply,
                   pageVars>>
    /\ UNCHANGED widgetVars

\* onOpenChange of the Sheet (backdrop, Escape, close button): onClose()
CloseRequest ==
    /\ Mounted
    /\ isOpen
    /\ openQueue = <<>>
    /\ openQueue' = Append(openQueue, FALSE)
    /\ events' = << CallbackOnly("onClose") >>
    /\ lastOp' = Op("closeRequest", "sheet")
    /\ UNCHANGED <<storeVars, ops, isOpen, form, formDefaults, errors, seenAtApply,
                   pageVars>>
    /\ UNCHANGED widgetVars

\* The user changes a field of the open sheet (Controller onChange).
EditField ==
    /\ Mounted
    /\ isOpen
    /\ \E k \in SchemaKeys : \E v \in FieldInputs(k) :
          /\ form[k] # Written(v)
          /\ form' = [form EXCEPT ![k] = Written(v)]
    /\ lastOp' = Op("edit", "sheet")
    /\ UNCHANGED <<storeVars, ops, isOpen, openQueue, formDefaults, errors, events,
                   seenAtApply, pageVars>>
    /\ UNCHANGED widgetVars

\* The setFilters calls of onSubmit: setFilterValue(key, value) for every
\* entry of data, isHidden and appliedInternally left to their defaults.
RECURSIVE SubmitUpdates(_)
SubmitUpdates(entries) ==
    IF Len(entries) = 0 THEN <<>>
    ELSE <<SetUpdate(entries[1].name, FilterValue(entries[1].value, FALSE, FALSE))>>
         \o SubmitUpdates(Tail(entries))

SubmitCalls(entries) ==
    [j \in 1..Len(entries) |-> Call("setFilterValue", entries[j].name, entries[j].value)]

RECURSIVE WrittenAfter(_, _)
WrittenAfter(w, entries) ==
    IF Len(entries) = 0 THEN w
    ELSE WrittenAfter([w EXCEPT ![entries[1].name] = Written(entries[1].value)], Tail(entries))

RECURSIVE InsertedAfter(_, _)
InsertedAfter(o, entries) ==
    IF Len(entries) = 0 THEN o
    ELSE InsertedAfter(InsertedAfterSet(o, entries[1].name), Tail(entries))

\* Variant of onSubmit that does not call onClose().
onSubmit_withoutClose(data) ==
    /\ queue' = [queue EXCEPT !["sheet"] = @ \o SubmitUpdates(DataEntries(data))]
    /\ lastWritten' = [lastWritten EXCEPT
                         !["sheet"] = WrittenAfter(@, DataEntries(data))]
    /\ insertedOrder' = [insertedOrder EXCEPT
                           !["sheet"] = InsertedAfter(@, DataEntries(data))]
    /\ seenAtApply' = [called |-> TRUE, data |-> data, mapping |-> filters["sheet"],
                       open |-> isOpen, item |-> storage[StorageKey(storedAs["sheet"])],
                       requests |-> Len(requests)]
    /\ pageFiltersQueue' = Append(pageFiltersQueue, getAppliedFilters(filters["caller"]))
    /\ openQueue' = openQueue
    /\ events' = SubmitCalls(DataEntries(data)) \o << CallbackOnly("onApply") >>

\* onSubmit(data): the loop of setFilterValue calls, then onApply(data),
\* then onClose(). Nothing has rendered when onApply runs: the page reads
\* the mapping and the item of before the calls. The page's onApply is
\* setFilters(getAppliedFilters()), getAppliedFilters being the one of the
\* page's own useFilters() call.
onSubmit(data) ==
    /\ queue' = [queue EXCEPT !["sheet"] = @ \o SubmitUpdates(DataEntries(data))]
    /\ lastWritten' = [lastWritten EXCEPT
                         !["sheet"] = WrittenAfter(@, DataEntries(data))]
    /\ insertedOrder' = [insertedOrder EXCEPT
                           !["sheet"] = InsertedAfter(@, DataEntries(data))]
    /\ seenAtApply' = [called |-> TRUE, data |-> data, mapping |-> filters["sheet"],
                       open |-> isOpen, item |-> storage[StorageKey(storedAs["sheet"])],
                       requests |-> Len(requests)]
    /\ pageFiltersQueue' = Append(pageFiltersQueue, getAppliedFilters(filters["caller"]))
    /\ openQueue' = Append(openQueue, FALSE)
    /\ events' = SubmitCalls(DataEntries(data))
                   \o << CallbackOnly("onApply"), CallbackOnly("onClose") >>

\* Variant of handleSubmit that calls onSubmit whatever the resolver says.
handleSubmit_withoutValidation ==
    /\ errors' = SchemaErrors(form)
    /\ onSubmit(SchemaData(form))
    /\ UNCHANGED <<storage, status, storedAs, filters, effectPending, persistedFrom,
                   isOpen, form, formDefaults, pageFilters, requests>>

\* methods.handleSubmit(onSubmit): run the resolver on the form values;
\* with errors, record them and stop; without, call onSubmit with the
\* resolver's values.
handleSubmit ==
    /\ errors' = SchemaErrors(form)
    /\ IF SchemaErrors(form) # {}
       THEN /\ events' = <<>>
            /\ UNCHANGED <<queue, lastWritten, insertedOrder, seenAtApply, openQueue, pageFiltersQueue>>
       ELSE onSubmit(SchemaData(form))
    /\ UNCHANGED <<storage, status, storedAs, filters, effectPending, persistedFrom,
                   isOpen, form, formDefaults, pageFilters, requests>>

\* onClick of the "Apply Filters" button.
ApplyClick ==
    /\ Mounted
    /\ isOpen
    /\ ops < MaxOps
    /\ handleSubmit
    /\ lastOp' = Op("applyClick", "sheet")
    /\ ops' = ops + 1
    /\ UNCHANGED widgetVars

\* reset(values) of react-hook-form: an empty object brings back the
\* current default values and empties the defaults; anything else becomes
\* both the values and the defaults.
ResetValues(values) == IF values = NoneWritten THEN formDefaults ELSE values

\* Variant of handleClear that also calls onClose().
handleClear_alsoCloses ==
    /\ queue' = [queue EXCEPT !["sheet"] = Append(@, ClearUpdate)]
    /\ lastWritten' = [lastWritten EXCEPT !["sheet"] = NoneWritten]
    /\ insertedOrder' = [insertedOrder EXCEPT !["sheet"] = <<>>]
    /\ form' = ResetValues(NoneWritten)
    /\ formDefaults' = NoneWritten
    /\ errors' = {}
    /\ events' = << CallbackOnly("clearFilters"), CallbackOnly("reset"),
                    CallbackOnly("onClear"), CallbackOnly("onClose") >>
    /\ pageFiltersQueue' = Append(pageFiltersQueue, getAppliedFilters(filters["caller"]))
    /\ openQueue' = Append(openQueue, FALSE)
    /\ UNCHANGED <<storage, status, storedAs, filters, effectPending, persistedFrom,
                   isOpen, seenAtApply, pageFilters, requests>>

\* handleClear: clearFilters(); reset({}); onClear(). The page's onClear
\* is setFilters(getAppliedFilters()), as its onApply.
handleClear ==
    /\ queue' = [queue EXCEPT !["sheet"] = Append(@, ClearUpdate)]
    /\ lastWritten' = [lastWritten EXCEPT !["sheet"] = NoneWritten]
    /\ insertedOrder' = [insertedOrder EXCEPT !["sheet"] = <<>>]
    /\ form' = ResetValues(NoneWritten)
    /\ formDefaults' = NoneWritten
    /\ errors' = {}
    /\ events' = << CallbackOnly("clearFilters"), CallbackOnly("reset"),
                    CallbackOnly("onClear") >>
    /\ pageFiltersQueue' = Append(pageFiltersQueue, getAppliedFilters(filters["caller"]))
    /\ UNCHANGED <<storage, status, storedAs, filters, effectPending, persistedFrom,
                   isOpen, openQueue, seenAtApply, pageFilters, requests>>

\* onClick of the "Clear Filters" button.
ClearClick ==
    /\ Mounted
    /\ isOpen
    /\ ops < MaxOps
    /\ handleClear
    /\ lastOp' = Op("clearClick", "sheet")
    /\ ops' = ops + 1
    /\ UNCHANGED widgetVars

\* A render of the root: queued store updates and the queued open flag
\* become the committed state.
AppRender ==
    /\ Mounted
    /\ (openQueue # <<>> \/ pageFiltersQueue # <<>> \/ \E i \in Insts : Len(queue[i]) > 0)
    /\ RenderStores
    /\ isOpen' = IF openQueue = <<>> THEN isOpen ELSE openQueue[Len(openQueue)]
    /\ openQueue' = <<>>
    /\ pageFilters' = IF pageFiltersQueue = <<>> THEN pageFilters
                      ELSE pageFiltersQueue[Len(pageFiltersQueue)]
    /\ pageFiltersQueue' = <<>>
    /\ lastOp' = Op("render", "sheet")
    /\ UNCHANGED <<ops, form, formDefaults, errors, events, seenAtApply, requests>>
    /\ UNCHANGED widgetVars

\* The passive effects of a commit, children first: the sheet's
\* persistence effect and its reset effect ([filters, reset]), then the
\* page's persistence effect and its fetch effect ([getQueryString], a
\* callback that is new only when the mapping of the page's hook is).
AppEffects ==
    /\ Mounted
    /\ \E i \in Insts : effectPending[i]
    /\ LET afterSheet == IF effectPending["sheet"] THEN SetItem(storage, "sheet") ELSE storage
       IN  storage' = IF effectPending["caller"] THEN SetItem(afterSheet, "caller")
                      ELSE afterSheet
    /\ persistedFrom' =
         [persistedFrom EXCEPT ![StorageKey(Omitted)] =
            IF effectPending["caller"] THEN filters["caller"] ELSE filters["sheet"]]
    /\ IF effectPending["sheet"]
       THEN /\ form' = ResetValues(FormValuesOf(filters["sheet"]))
            /\ formDefaults' = FormValuesOf(filters["sheet"])
            /\ errors' = {}
       ELSE UNCHANGED <<form, formDefaults, errors>>
    /\ requests' = IF effectPending["caller"]
                   THEN Append(requests, getQueryString(filters["caller"]))
                   ELSE requests
    /\ effectPending' = [i \in Insts |-> FALSE]
    /\ lastOp' = Op("setItem", "sheet")
    /\ UNCHANGED <<status, storedAs, filters, queue, lastWritten, insertedOrder, ops, isOpen,
                   openQueue, events, seenAtApply, pageFilters, pageFiltersQueue>>
    /\ UNCHANGED widgetVars

\* The same flush when setItem throws: the root is unmounted.
AppEffectsThrow ==
    /\ Mounted
    /\ \E i \in Insts : effectPending[i]
    /\ status' = [i \in Insts |-> "crashed"]
    /\ filters' = [i \in Insts |-> <<>>]
    /\ queue' = [i \in Insts |-> <<>>]
    /\ effectPending' = [i \in Insts |-> FALSE]
    /\ isOpen' = FALSE
    /\ openQueue' = <<>>
    /\ form' = NoneWritten
    /\ formDefaults' = NoneWritten
    /\ errors' = {}
    /\ pageFilters' = <<>>
    /\ pageFiltersQueue' = <<>>
    /\ lastOp' = Op("setItemThrows", "sheet")
    /\ UNCHANGED <<storage, storedAs, lastWritten, insertedOrder, persistedFrom, ops, events, seenAtApply,
                   requests>>
    /\ UNCHANGED widgetVars

\* The page is closed or reloaded.
AppUnmount ==
    /\ \A i \in Insts : status[i] # "unmounted"
    /\ ops < MaxOps
    /\ status' = [i \in Insts |-> "unmounted"]
    /\ filters' = [i \in Insts |-> <<>>]
    /\ queue' = [i \in Insts |-> <<>>]
    /\ effectPending' = [i \in Insts |-> FALSE]
    /\ lastWritten' = [i \in Insts |-> NoneWritten]
    /\ insertedOrder' = [i \in Insts |-> <<>>]
    /\ isOpen' = FALSE
    /\ openQueue' = <<>>
    /\ form' = NoneWritten
    /\ formDefaults' = NoneWritten
    /\ errors' = {}
    /\ events' = <<>>
    /\ seenAtApply' = NothingSeen
    /\ pageFilters' = <<>>
    /\ pageFiltersQueue' = <<>>
    /\ requests' = <<>>
    /\ lastOp' = Op("unmount", "sheet")
    /\ ops' = ops + 1
    /\ UNCHANGED <<storage, storedAs, persistedFrom>>
    /\ UNCHANGED widgetVars

\* Mappings an earlier session can have left under "filters".
SheetSavedMappings ==
    { << Prop("email", FilterValue(Str("a@b.co"), TRUE, TRUE)) >>,
      << Prop("tags", FilterValue(Arr(<<"a", "b">>), TRUE, FALSE)),
         Prop("status", FilterValue(Str("active"), FALSE, FALSE)) >>,
      << Prop("email", FilterValue(NaN, FALSE, FALSE)) >> }

SheetInit ==
    \/ \E item \in {NoItem, Malformed} : InitWith(item, <<>>)
    \/ \E m \in SheetSavedMappings : InitWith(JSONstringify(m), m)

SheetNext ==
    \/ AppMount
    \/ OpenRequest
    \/ CloseRequest
    \/ EditField
    \/ ApplyClick
    \/ ClearClick
    \/ AppRender
    \/ AppEffects
    \/ AppEffectsThrow
    \/ AppUnmount

SheetSpec == SheetInit /\ [][SheetNext]_vars

\* ------------------------------------------------ properties of the store
Mutations == {"setFilterValue", "setFilterValueOmitted", "removeFilter", "clearFilters"}

\* The values the specification calls empty.
EmptyValues == {Str(""), Null, Undefined, Arr(<<>>), NaN}

CallerKey == StorageKey(storedAs["caller"])

\* The positions of name k in a list of applied pairs.
PairsOf(ap, k) == {j \in 1..Len(ap) : ap[j].name = k}

\* C1: once the calls made so far are rendered, getAppliedFilters() has
\* exactly one pair for every name whose last written value (not removed,
\* not cleared) is none of "", null, undefined, [], NaN, that pair carries
\* the last written value, and there is no pair for any other name.
C1_AppliedAreLastWritten ==
    (status["caller"] = "mounted" /\ queue["caller"] = <<>>) =>
        LET ap == getAppliedFilters(filters["caller"])
        IN  \A k \in AllNames :
              IF lastWritten["caller"][k].present
                 /\ lastWritten["caller"][k].value \notin EmptyValues
              THEN /\ Cardinality(PairsOf(ap, k)) = 1
                   /\ \A j \in PairsOf(ap, k) : ap[j].value = lastWritten["caller"][k].value
              ELSE PairsOf(ap, k) = {}

\* A rendered store after two calls, one name holding NaN and the other an
\* applied sequence.
C1_Witness ==
    /\ status["caller"] = "mounted"
    /\ queue["caller"] = <<>>
    /\ lastOp.op = "render"
    /\ ops >= 2
    /\ lastWritten["caller"]["status"] = Written(NaN)
    /\ lastWritten["caller"]["tags"] = Written(Arr(<<"a", "b">>))
    /\ Len(getAppliedFilters(filters["caller"])) = 1

IsScalar(v) == v.t \in {"string", "number", "boolean"}

\* name=value for every applied pair, joined by '&'.
NameValueQuery(ap) ==
    JoinText([j \in 1..Len(ap) |-> FormEncode(ap[j].name) \o "=" \o ParamText(ap[j].value)], "&")

\* C2: when every applied filter has a scalar value, getQueryString() is
\* name=value per applied filter, joined by '&', in getAppliedFilters()
\* order; a store holding only status = "active" gives "status=active".
C2_ScalarQueryString ==
    (status["caller"] = "mounted"
       /\ \A j \in 1..Len(getAppliedFilters(filters["caller"])) :
             IsScalar(getAppliedFilters(filters["caller"])[j].value)) =>
        /\ getQueryString(filters["caller"])
             = NameValueQuery(getAppliedFilters(filters["caller"]))
        /\ (filters["caller"] = << Prop("status", FilterValue(Str("active"), FALSE, FALSE)) >>
              => getQueryString(filters["caller"]) = "status=active")

\* C3: an applied filter whose value is a sequence of n strings gives
\* exactly n parameters keyed by the filter's name, one per element in
\* element order; a store holding only tags = ["a","b"] gives
\* "tags=a&tags=b".
C3_SequenceQueryString ==
    status["caller"] = "mounted" =>
        LET ap == getAppliedFilters(filters["caller"])
            ps == QueryParams(ap)
        IN  /\ \A j \in 1..Len(ap) :
                  ap[j].value.t = "array" =>
                     LET mine == SelectSeq(ps, LAMBDA q : q.k = FormEncode(ap[j].name))
                     IN  /\ Len(mine) = Len(ap[j].value.a)
                         /\ \A e \in 1..Len(mine) : mine[e].v = FormEncode(ap[j].value.a[e])
            /\ (filters["caller"] = << Prop("tags", FilterValue(Arr(<<"a", "b">>), FALSE, FALSE)) >>
                  => getQueryString(filters["caller"]) = "tags=a&tags=b")

\* C4: creating a store whose key holds text that is not JSON raises no
\* error and gives a store with an empty mapping.
C4_MalformedItemGivesEmptyStore ==
    (lastOp = Op("mount", "caller") /\ storage[CallerKey].kind = "malformed") =>
        /\ status["caller"] = "mounted"
        /\ filters["caller"] = <<>>

\* C5 as stated: when a setFilterValue / removeFilter / clearFilters call
\* has returned, the item under the store's key is the serialization of the
\* mapping that results from the call.
C5_PersistedWithinTheCall ==
    (status["caller"] = "mounted" /\ lastOp.op \in Mutations) =>
        storage[CallerKey] = JSONstringify(ApplyQueue(filters["caller"], queue["caller"]))

\* C5, amended: a call only queues the change; once the render has
\* committed it and the persistence effect has run (no update queued, no
\* effect pending) the item under the store's key is the serialization of
\* the whole in-memory mapping.
C5_PersistedWhenIdle ==
    (status["caller"] = "mounted" /\ queue["caller"] = <<>> /\ ~effectPending["caller"]) =>
        storage[CallerKey] = JSONstringify(filters["caller"])

\* The effect has just written a mapping that has an entry that is not
\* applied, after a call was rendered.
C5_Witness ==
    /\ status["caller"] = "mounted"
    /\ queue["caller"] = <<>>
    /\ ~effectPending["caller"]
    /\ lastOp = Op("setItem", "caller")
    /\ ops >= 1
    /\ \E j \in 1..Len(filters["caller"]) : filters["caller"][j].filter.value = Str("")

\* C6: a store created from an item that the persistence effect wrote has
\* a mapping equal to the mapping that was written (same names in the same
\* order, same value, isHidden and appliedInternally).
C6_RoundTrip ==
    (lastOp = Op("mount", "caller") /\ status["caller"] = "mounted"
       /\ storage[CallerKey].kind = "json") =>
        filters["caller"] = persistedFrom[CallerKey]

\* C7: when setItem throws, the error does not reach the component, the
\* in-memory mapping still reflects the calls made, and the store stays
\* usable.
C7_WriteFailureIsSwallowed ==
    lastOp = Op("setItemThrows", "caller") =>
        /\ status["caller"] = "mounted"
        /\ WrittenOf(ApplyQueue(filters["caller"], queue["caller"])) = lastWritten["caller"]

\* ------------------------------------------------ properties of the sheet
CallsOf(c) == {j \in 1..Len(events) : events[j].call = c}

ApplySucceeded == lastOp = Op("applyClick", "sheet") /\ events # <<>>

\* C8: an Apply whose form values fail the schema leaves the sheet open
\* (no close is requested), leaves the store mapping, its queued updates
\* and the stored item as they were, and calls neither onApply nor onClose.
C8_FailedApplyChangesNothing ==
    [][(lastOp' = Op("applyClick", "sheet") /\ SchemaErrors(form) # {}) =>
          /\ isOpen' = isOpen
          /\ openQueue' = openQueue
          /\ filters' = filters
          /\ queue' = queue
          /\ storage' = storage
          /\ seenAtApply' = seenAtApply
          /\ \A j \in 1..Len(events') : events'[j].call \notin {"onApply", "onClose"}]_vars

\* Apply was clicked with "bad" typed in the email field of an open sheet.
C8_Witness ==
    /\ lastOp = Op("applyClick", "sheet")
    /\ isOpen
    /\ form["email"] = Written(Str("bad"))
    /\ "email" \in errors

\* C9: on a successful Apply the store is updated first, then the sheet is
\* closed, then the caller is notified once; while onApply runs the store
\* mapping already holds the applied values and the sheet is closed.
C9_StoreThenCloseThenNotify ==
    ApplySucceeded =>
        /\ Cardinality(CallsOf("onApply")) = 1
        /\ \A a \in CallsOf("onApply") : \E c \in CallsOf("onClose") : c < a
        /\ ~seenAtApply.open
        /\ \A k \in AllNames :
              seenAtApply.data[k].present =>
                 /\ k \in Keys(seenAtApply.mapping)
                 /\ seenAtApply.mapping[IndexOf(seenAtApply.mapping, k)].filter.value
                      = seenAtApply.data[k].value

\* C10: a successful Apply calls setFilterValue only for the fields whose
\* value differs from the stored one, and every entry whose form value
\* equals its stored value comes out of the Apply unchanged, isHidden and
\* appliedInternally included.
C10_OnlyChangedFieldsAreSet ==
    (ApplySucceeded /\ Len(queue["sheet"]) = Cardinality(CallsOf("setFilterValue"))) =>
        LET before == filters["sheet"]
            after == ApplyQueue(before, queue["sheet"])
        IN  /\ \A j \in CallsOf("setFilterValue") :
                  ~(/\ events[j].name \in Keys(before)
                    /\ before[IndexOf(before, events[j].name)].filter.value = events[j].value)
            /\ \A k \in Keys(before) :
                  form[k] = Written(before[IndexOf(before, k)].filter.value) =>
                     /\ k \in Keys(after)
                     /\ after[IndexOf(after, k)].filter = before[IndexOf(before, k)].filter

\* The mapping the sheet's store holds once its queued calls are rendered.
SheetWrote == ApplyQueue(filters["sheet"], queue["sheet"])

AppIdle ==
    /\ Mounted
    /\ openQueue = <<>>
    /\ pageFiltersQueue = <<>>
    /\ \A i \in Insts : queue[i] = <<>> /\ ~effectPending[i]

\* C11: the applied-filter list the page reads in its onApply / onClear
\* callback is the list of applied filters of the mapping the sheet just
\* wrote, and once a successful Apply has been rendered and its effects
\* have run, the page has issued a data request after that Apply, whose
\* query string is the one of the updated mapping.
C11_PageFollowsTheSheet ==
    /\ ((ApplySucceeded \/ lastOp = Op("clearClick", "sheet")) =>
          /\ pageFiltersQueue # <<>>
          /\ pageFiltersQueue[Len(pageFiltersQueue)] = getAppliedFilters(SheetWrote))
    /\ ((AppIdle /\ seenAtApply.called) =>
          /\ Len(requests) > seenAtApply.requests
          /\ requests[Len(requests)] = getQueryString(filters["sheet"]))

\* C12: a Clear leaves the sheet's store with the empty mapping once
\* rendered, calls onClear exactly once and never onClose, and changes
\* neither the open flag nor the queued open requests; when the effects of
\* the render that emptied the mapping have run, the form values are empty.
C12_ClearEmptiesAndNotifies ==
    [][/\ (lastOp' = Op("clearClick", "sheet") =>
             /\ ApplyQueue(filters'["sheet"], queue'["sheet"]) = <<>>
             /\ Cardinality({j \in 1..Len(events') : events'[j].call = "onClear"}) = 1
             /\ \A j \in 1..Len(events') : events'[j].call # "onClose"
             /\ isOpen' = isOpen
             /\ openQueue' = openQueue)
       /\ ((lastOp' = Op("setItem", "sheet") /\ effectPending["sheet"]
              /\ filters["sheet"] = <<>>) =>
             form' = NoneWritten)]_vars

\* A Clear of a store that an earlier Apply had filled has been rendered
\* and its effects have run: the sheet is still open, its mapping, the
\* stored item and the form are empty.
C12_Witness ==
    /\ lastOp = Op("setItem", "sheet")
    /\ CallsOf("onClear") # {}
    /\ seenAtApply.called
    /\ seenAtApply.data["email"].present
    /\ isOpen
    /\ filters["sheet"] = <<>>
    /\ storage["filters"] = JSONstringify(<<>>)
    /\ form = NoneWritten

\* The open flag a step asks for, if it asks for one.
Requests(flag) ==
    /\ Len(openQueue') = Len(openQueue) + 1
    /\ openQueue'[Len(openQueue')] = flag

\* C13: the sheet is Closed or Open. While the page lives, the flag changes
\* only in a render, to the flag last requested; Open is requested only by
\* the page's open request, on a Closed sheet; Closed is requested only by
\* a close request of the Sheet or by an Apply that passed validation, and
\* both do request it. So an Apply (failed or not), a Clear or an edit
\* never opens a Closed sheet.
C13_OpenOnlyOnRequest ==
    [][/\ isOpen' \in BOOLEAN
       /\ ((Mounted' /\ isOpen' # isOpen) =>
             /\ lastOp'.op = "render"
             /\ openQueue # <<>>
             /\ isOpen' = openQueue[Len(openQueue)])
       /\ (Requests(TRUE) => (lastOp' = Op("openRequest", "caller") /\ ~isOpen))
       /\ (Requests(FALSE) =>
             \/ lastOp' = Op("closeRequest", "sheet")
             \/ (lastOp' = Op("applyClick", "sheet") /\ SchemaErrors(form) = {}))
       /\ (lastOp'.op \in {"applyClick", "clearClick", "edit"} =>
             /\ isOpen' = isOpen
             /\ ~Requests(TRUE))
       /\ ((lastOp' = Op("closeRequest", "sheet")
              \/ (lastOp' = Op("applyClick", "sheet") /\ SchemaErrors(form) = {})) =>
             Requests(FALSE))]_vars

\* The render after a successful Apply has closed the sheet.
C13_Witness ==
    /\ Mounted
    /\ lastOp = Op("render", "sheet")
    /\ ~isOpen
    /\ seenAtApply.called
    /\ seenAtApply.open

\* C14: whenever the sheet goes from Closed to Open, the form values are
\* the values of the current store mapping: what was typed in an earlier
\* Open session that ended without a successful Apply is gone.
C14_OpenShowsTheStore ==
    [][(Mounted' /\ ~isOpen /\ isOpen') =>
          form' = FormValuesOf(filters'["sheet"])]_vars

\* ------------------------------------------ properties of the store calls
\* The mapping a component's store holds once its queued calls are rendered,
\* before and after a step.
Logical(i) == ApplyQueue(filters[i], queue[i])
LogicalAfter(i) == ApplyQueue(filters'[i], queue'[i])

\* The update the last call of the caller queued.
LastQueued == queue'["caller"][Len(queue'["caller"])]

\* The entry of name k in mapping m, if there is one.
EntryOf(m, k) ==
    IF k \in Keys(m) THEN [present |-> TRUE, filter |-> m[IndexOf(m, k)].filter]
    ELSE [present |-> FALSE, filter |-> FilterValue(Undefined, FALSE, FALSE)]

\* The names of m other than k, in the order m lists them.
OtherKeys(m, k) == SelectSeq([j \in 1..Len(m) |-> m[j].key], LAMBDA n : n # k)

\* C15: removeFilter(name) raises nothing, leaves the mapping without an
\* entry for name and with every other entry as it was, in the same order;
\* when name has no entry (an empty mapping included) the mapping is
\* unchanged.
C15_RemoveDeletesOnlyTheName ==
    [][lastOp'.op = "removeFilter" =>
          LET k == LastQueued.name
              before == Logical("caller")
              after == LogicalAfter("caller")
          IN  /\ status'["caller"] = "mounted"
              /\ lastWritten'["caller"][k] = Unset
              /\ k \notin Keys(after)
              /\ \A n \in AllNames \ {k} : EntryOf(after, n) = EntryOf(before, n)
              /\ OtherKeys(after, k) = OtherKeys(before, k)
              /\ (k \notin Keys(before) => after = before)]_vars

\* removeFilter("tags") was called on a rendered mapping of two entries.
C15_Witness ==
    /\ lastOp.op = "removeFilter"
    /\ status["caller"] = "mounted"
    /\ Len(filters["caller"]) = 2
    /\ queue["caller"] = << RemoveUpdate("tags") >>
    /\ Keys(Logical("caller")) = {"status"}

\* C16: setFilterValue(name, value, isHidden, appliedInternally) raises
\* nothing and leaves the mapping with the entry {value, isHidden,
\* appliedInternally} for name, both flags false when they are left out,
\* and with every other entry as it was, in the same order; the value is
\* not validated: after setFilterValue(name, "") the name is present with
\* the empty value, and the mapping is not the one without the name.
C16_SetWritesOnlyTheName ==
    [][lastOp'.op \in {"setFilterValue", "setFilterValueOmitted"} =>
          LET u == LastQueued
              k == u.name
              before == Logical("caller")
              after == LogicalAfter("caller")
          IN  /\ status'["caller"] = "mounted"
              /\ lastWritten'["caller"][k] = Written(u.filter.value)
              /\ EntryOf(after, k) = [present |-> TRUE, filter |-> u.filter]
              /\ (lastOp'.op = "setFilterValueOmitted" =>
                    ~u.filter.isHidden /\ ~u.filter.appliedInternally)
              /\ \A n \in AllNames \ {k} : EntryOf(after, n) = EntryOf(before, n)
              /\ OtherKeys(after, k) = OtherKeys(before, k)
              /\ Len(after) = Len(OtherKeys(before, k)) + 1
              /\ JSONstringify(after)
                   # JSONstringify(SelectSeq(after, LAMBDA p : p.key # k))]_vars

\* setFilterValue("status", "") was called, flags left out, on a rendered
\* mapping of two entries that already had status.
C16_Witness ==
    /\ lastOp.op = "setFilterValueOmitted"
    /\ status["caller"] = "mounted"
    /\ Len(filters["caller"]) = 2
    /\ queue["caller"] = << SetUpdate("status", FilterValue(Str(""), FALSE, FALSE)) >>
    /\ EntryOf(Logical("caller"), "status").filter.value = Str("")
    /\ Len(Logical("caller")) = 2

\* C17: making the call just made a second time (clearFilters,
\* setFilterValue with the same arguments, removeFilter with the same
\* name) gives the mapping, and so the serialization the effect writes,
\* that the first call gave.
C17_SecondCallChangesNothing ==
    (status["caller"] = "mounted" /\ queue["caller"] # <<>>) =>
        LET u == queue["caller"][Len(queue["caller"])]
            once == Logical("caller")
            twice == ApplyQueue(filters["caller"], Append(queue["caller"], u))
        IN  /\ twice = once
            /\ JSONstringify(twice) = JSONstringify(once)

\* setFilterValue("status", "active") was called twice in a row on an empty
\* mapping: one entry results.
C17_Witness ==
    /\ status["caller"] = "mounted"
    /\ filters["caller"] = <<>>
    /\ lastOp.op \in {"setFilterValue", "setFilterValueOmitted"}
    /\ queue["caller"] = << SetUpdate("status", FilterValue(Str("active"), FALSE, FALSE)),
                            SetUpdate("status", FilterValue(Str("active"), FALSE, FALSE)) >>
    /\ Len(Logical("caller")) = 1

\* The mapping with isHidden and appliedInternally false in every entry.
WithoutFlags(m) ==
    [j \in 1..Len(m) |-> Prop(m[j].key, FilterValue(m[j].filter.value, FALSE, FALSE))]

\* C19: an entry with isHidden or appliedInternally true whose value is
\* none of "", null, undefined, [], NaN has its pair in getAppliedFilters(),
\* and getAppliedFilters() and getQueryString() are what they would be with
\* both flags false in every entry.
C19_FlagsDoNotHideFilters ==
    status["caller"] = "mounted" =>
        LET m == filters["caller"]
        IN  /\ \A j \in 1..Len(m) :
                  ((m[j].filter.isHidden \/ m[j].filter.appliedInternally)
                     /\ m[j].filter.value \notin EmptyValues) =>
                     \E a \in 1..Len(getAppliedFilters(m)) :
                        getAppliedFilters(m)[a] = Pair(m[j].key, m[j].filter.value)
            /\ getAppliedFilters(m) = getAppliedFilters(WithoutFlags(m))
            /\ getQueryString(m) = getQueryString(WithoutFlags(m))

\* A rendered mapping in which a call of this session has set an applied
\* entry with both flags true, next to another applied entry.
C19_Witness ==
    /\ status["caller"] = "mounted"
    /\ lastOp.op = "render"
    /\ Len(filters["caller"]) = 2
    /\ Len(getAppliedFilters(filters["caller"])) = 2
    /\ EntryOf(filters["caller"], "status").filter = FilterValue(Str("active"), TRUE, TRUE)

\* The names of a list of applied pairs, in list order.
NamesOf(ap) == [j \in 1..Len(ap) |-> ap[j].name]

\* Is the last written value of name n one that getAppliedFilters() lists?
WrittenApplied(n) ==
    lastWritten["caller"][n].present /\ lastWritten["caller"][n].value \notin EmptyValues

\* The names of the model that are array indices, in ascending numeric order.
IndexNames == << "2", "10" >>
IsIndexName(n) == \E j \in 1..Len(IndexNames) : IndexNames[j] = n

\* C18 as stated: once the calls are rendered, getAppliedFilters() lists
\* the applied names in the order in which they were first inserted since
\* they were last absent (an overwrite keeps the place, a removal followed
\* by a new set moves the name to the end).
C18_InsertionOrder ==
    (status["caller"] = "mounted" /\ queue["caller"] = <<>>) =>
        NamesOf(getAppliedFilters(filters["caller"]))
          = SelectSeq(insertedOrder["caller"], WrittenApplied)

\* C18, amended: getAppliedFilters() lists first the applied names that are
\* array indices ("2", "10"), in ascending numeric order, then the other
\* applied names in the order in which they were first inserted since they
\* were last absent.
C18_PropertyOrder ==
    (status["caller"] = "mounted" /\ queue["caller"] = <<>>) =>
        NamesOf(getAppliedFilters(filters["caller"]))
          = SelectSeq(IndexNames, WrittenApplied)
              \o SelectSeq(insertedOrder["caller"],
                           LAMBDA n : WrittenApplied(n) /\ ~IsIndexName(n))

\* Rendered: "10" was set after "status", whose empty value was then
\* overwritten with an applied one; "10" is listed before "status" and
\* after "2".
C18_Witness ==
    /\ status["caller"] = "mounted"
    /\ queue["caller"] = <<>>
    /\ lastOp.op = "render"
    /\ insertedOrder["caller"] = << "2", "status", "10" >>
    /\ NamesOf(getAppliedFilters(filters["caller"])) = << "2", "10", "status" >>

\* The key each of the two components was created with.
KeyOf == [i \in Insts |-> IF i = "caller" THEN "filters" ELSE "segments"]

\* C20: with two stores created on different keys, a call, an effect, a
\* mount or an unmount of one of them changes neither the item under the
\* other's key nor, while the other stays mounted, the other's committed
\* mapping and queued calls; a render gives each store the mapping of its
\* own queued calls and nothing else.
C20_KeysIsolateStores ==
    [][\A i \in Insts : \A j \in Insts \ {i} :
          /\ (lastOp'.i = i =>
                /\ storage'[KeyOf[j]] = storage[KeyOf[j]]
                /\ ((status[j] = "mounted" /\ status'[j] = "mounted") =>
                      /\ filters'[j] = filters[j]
                      /\ queue'[j] = queue[j]))
          /\ ((lastOp'.op = "render" /\ status[j] = "mounted") =>
                /\ LogicalAfter(j) = Logical(j)
                /\ storage' = storage)]_vars

\* Both stores are mounted, each has persisted a mapping of its own under
\* its own key, and the effect of "sheet" has just written.
C20_Witness ==
    /\ \A i \in Insts : status[i] = "mounted"
    /\ lastOp = Op("setItem", "sheet")
    /\ ops >= 2
    /\ filters["caller"] # filters["sheet"]
    /\ filters["sheet"] # <<>>
    /\ storage["segments"] = JSONstringify(filters["sheet"])
    /\ storage["filters"] = JSONstringify(filters["caller"])
    /\ storage["filters"] # storage["segments"]

\* ------------------------------------------- properties of the storage key
\* What is stored under a key, nothing being stored under a key that
\* localStorage does not hold.
ItemUnder(k) == IF k \in StorageKeys THEN storage[k] ELSE NoItem
MappingUnder(k) == IF k \in StorageKeys THEN persistedFrom[k] ELSE <<>>

\* The key of a store as C21 states it, and with "" counted as no namespace.
NamespaceAsKey(arg) == IF arg.given THEN arg.text ELSE "filters"
NonEmptyNamespaceAsKey(arg) == IF arg.given /\ arg.text # "" THEN arg.text ELSE "filters"

\* A step reads and writes only the key keyOf gives for the store's
\* filtersStoredAs: the mount loads the mapping stored under that key (the
\* empty mapping when nothing is stored there) and writes nothing, the
\* effect writes the serialization of the mapping under that key and
\* leaves every other key alone, and no other step writes.
UsesOnlyKey(keyOf(_)) ==
    /\ (lastOp' = Op("mount", "caller") =>
          /\ status'["caller"] = "mounted"
          /\ filters'["caller"] = MappingUnder(keyOf(storedAs'["caller"]))
          /\ (ItemUnder(keyOf(storedAs'["caller"])) = NoItem => filters'["caller"] = <<>>)
          /\ storage' = storage)
    /\ (lastOp' = Op("setItem", "caller") =>
          /\ \A k \in StorageKeys \ {keyOf(storedAs["caller"])} : storage'[k] = storage[k]
          /\ \E k \in StorageKeys :
                /\ k = keyOf(storedAs["caller"])
                /\ storage'[k] = JSONstringify(filters["caller"]))
    /\ (lastOp'.op \notin {"setItem"} => storage' = storage)

\* C21 as stated: a store created without a namespace reads and writes
\* only "filters", a store created with namespace k reads and writes only
\* k, and a store with nothing under its key starts with an empty mapping.
C21_NamespaceIsTheKey == [][UsesOnlyKey(NamespaceAsKey)]_vars

\* C21, amended: the same with the empty string counted as no namespace: a
\* store created without a namespace or with "" uses "filters", a store
\* created with a non-empty k uses k.
C21_NonEmptyNamespaceIsTheKey == [][UsesOnlyKey(NonEmptyNamespaceAsKey)]_vars

\* A store created with "segments" has loaded what was under "segments",
\* and its effect has written a call under "segments", "filters" holding
\* something else.
C21_Witness ==
    /\ status["caller"] = "mounted"
    /\ storedAs["caller"] = StoredAs("segments")
    /\ lastOp = Op("setItem", "caller")
    /\ ops = 1
    /\ Len(filters["caller"]) = 2
    /\ storage["segments"] = JSONstringify(filters["caller"])
    /\ storage["filters"] = NoItem

\* --------------------------------------------- properties of the two reads
\* C22: whenever getAppliedFilters() is empty, and so whenever the mapping
\* is empty or holds only empty strings, null, undefined, empty arrays and
\* NaN, getQueryString() returns the empty string.
C22_NothingAppliedGivesEmptyString ==
    status["caller"] = "mounted" =>
        /\ (getAppliedFilters(filters["caller"]) = <<>> =>
              getQueryString(filters["caller"]) = "")
        /\ ((\A j \in 1..Len(filters["caller"]) :
                filters["caller"][j].filter.value \in EmptyValues) =>
              /\ getAppliedFilters(filters["caller"]) = <<>>
              /\ getQueryString(filters["caller"]) = "")

\* The mapping holds two names, both with empty values, one of them NaN,
\* and the query string is empty.
C22_Witness ==
    /\ status["caller"] = "mounted"
    /\ Len(filters["caller"]) = 2
    /\ \A j \in 1..2 : filters["caller"][j].filter.value \in EmptyValues
    /\ \E j \in 1..2 : filters["caller"][j].filter.value = NaN
    /\ getAppliedFilters(filters["caller"]) = <<>>
    /\ getQueryString(filters["caller"]) = ""

\* C23: a call of getAppliedFilters() and getQueryString() leaves the
\* mapping, the queued updates, the effects that are due and localStorage
\* as they were, and called twice in a row they return the same list and
\* the same string.
C23_ReadsChangeNothing ==
    [][lastOp'.op = "read" =>
          /\ filters' = filters
          /\ queue' = queue
          /\ effectPending' = effectPending
          /\ storage' = storage
          /\ (lastOp.op = "read" =>
                /\ pageFilters' = pageFilters
                /\ requests'[Len(requests')] = requests[Len(requests)])]_vars

\* Two reads in a row over a mapping with an applied and an empty filter:
\* both gave the same non-empty string, and the empty filter is still in
\* the mapping.
C23_Witness ==
    /\ lastOp = Op("read", "caller")
    /\ ops = 2
    /\ Len(requests) = 2
    /\ requests[1] = requests[2]
    /\ requests[2] # ""
    /\ Len(pageFilters) = 1
    /\ Len(filters["caller"]) = 2

\* --------------------------------------- properties of a key that is shared
\* C24: with two stores on the key "filters" that only set filters, a
\* name that one store has written and that is in the persisted item is
\* still in the item after the effect of the other store has written.
C24_SharedKeyKeepsEntries ==
    [][\A i \in Insts : \A j \in Insts \ {i} :
          (lastOp' = Op("setItem", j) /\ status[i] = "mounted") =>
              \A n \in IsoNames :
                  (lastWritten[i][n].present /\ n \in Keys(persistedFrom["filters"])) =>
                      n \in Keys(persistedFrom'["filters"])]_vars

\* C25: when a render hands a mounted store a filtersStoredAs with another
\* key, the mapping is not loaded again (it is the mapping of the calls
\* made so far) and nothing is written by the render; the effect that
\* follows writes the serialization of that mapping under the new key and
\* leaves every other key, the old one among them, as it was.
C25_KeyChangeKeepsTheMapping ==
    [][/\ ((lastOp'.op = "keyChange"
              /\ StorageKey(storedAs'["caller"]) # StorageKey(storedAs["caller"])) =>
             /\ LogicalAfter("caller") = Logical("caller")
             /\ filters'["caller"] = Logical("caller")
             /\ storage' = storage)
       /\ ((lastOp.op = "keyChange" /\ lastOp'.op = "setItem") =>
             /\ filters' = filters
             /\ storage'[StorageKey(storedAs["caller"])] = JSONstringify(filters["caller"])
             /\ \A k \in StorageKeys \ {StorageKey(storedAs["caller"])} :
                   storage'[k] = storage[k])]_vars

\* The store has set "tags" on the key "filters", was handed "segments",
\* and its effect has written the same mapping under "segments".
C25_Witness ==
    /\ status["caller"] = "mounted"
    /\ storedAs["caller"] = StoredAs("segments")
    /\ lastOp = Op("setItem", "caller")
    /\ ops = 2
    /\ "tags" \in Keys(filters["caller"])
    /\ storage["segments"] = JSONstringify(filters["caller"])
    /\ storage["filters"] = storage["segments"]
    /\ persistedFrom["segments"] = filters["caller"]

\* ------------------------------------------- properties of the pagination
\* The entries of pageNumbers as rendered, and the page numbers among them.
Rendered == pageNumbers(currentPage, totalPages, maxVisibleButtons)
NumericEntries == SelectSeq(Rendered, LAMBDA e : ~e.ellipsis)
InRange == 1 <= currentPage /\ currentPage <= totalPages

\* C26: for 1 <= currentPage <= totalPages, pageNumbers holds at most
\* maxVisibleButtons page numbers.
C26_AtMostMaxVisibleButtons ==
    InRange => Len(NumericEntries) <= maxVisibleButtons

\* C27: for 1 <= currentPage <= totalPages, pageNumbers holds page 1,
\* page totalPages and currentPage; its page numbers are strictly
\* increasing and lie in 1..totalPages; an ellipsis stands between two page
\* numbers with at least one page between them, never first or last nor
\* next to another ellipsis, and two page numbers next to each other
\* differ by 1.
C27_PageNumbersAreAWindow ==
    InRange =>
        /\ \A n \in {1, totalPages, currentPage} :
              \E j \in 1..Len(NumericEntries) : NumericEntries[j].page = n
        /\ \A j \in 1..Len(NumericEntries) : NumericEntries[j].page \in 1..totalPages
        /\ \A j \in 1..(Len(NumericEntries) - 1) :
              NumericEntries[j].page < NumericEntries[j + 1].page
        /\ \A j \in 1..Len(Rendered) :
              Rendered[j].ellipsis =>
                  /\ 1 < j
                  /\ j < Len(Rendered)
                  /\ ~Rendered[j - 1].ellipsis
                  /\ ~Rendered[j + 1].ellipsis
                  /\ Rendered[j + 1].page - Rendered[j - 1].page >= 2
        /\ \A j \in 1..(Len(Rendered) - 1) :
              (~Rendered[j].ellipsis /\ ~Rendered[j + 1].ellipsis) =>
                  Rendered[j + 1].page = Rendered[j].page + 1

\* Next has led to page 4 of 8 with three buttons in the window: 1, an
\* ellipsis, 3 4 5, an ellipsis, 8.
C27_Witness ==
    /\ pageChange = [control |-> "Next", page |-> 4]
    /\ currentPage = 4
    /\ totalPages = 8
    /\ maxVisibleButtons = 3
    /\ Len(Rendered) = 7
    /\ Rendered[2].ellipsis
    /\ Rendered[6].ellipsis

\* C28: with totalPages >= 0 and currentPage in 1..max(1, totalPages), a
\* control that is pressed calls onPageChange with a page in 1..totalPages,
\* First and Previous can be pressed exactly when currentPage is not 1, and
\* Next and Last exactly when currentPage is not totalPages.
C28_ControlsStayInRange ==
    [][(totalPages >= 0 /\ currentPage \in 1..Max(1, totalPages)
          /\ pageChange' # pageChange) =>
             /\ pageChange'.page \in 1..totalPages
             /\ (pageChange'.control \in {"First", "Previous"} => currentPage # 1)
             /\ (pageChange'.control \in {"Next", "Last"} => currentPage # totalPages)]_vars

\* ------------------------------------------------ properties of the dialogs
\* C29: a press of the confirm button of a dialog adds onConfirm and then
\* onClose, once each, to the callbacks the dialog has called; a press of
\* cancel adds onClose alone; and neither press makes the other dialog call
\* anything.
C29_ConfirmThenClose ==
    [][\A d \in Dialogs :
          /\ (lastOp' = Op("confirm", d) /\ ops' = ops + 1 =>
                dialogCalls'[d] = dialogCalls[d] \o <<"onConfirm", "onClose">>)
          /\ (lastOp' = Op("cancel", d) /\ ops' = ops + 1 =>
                dialogCalls'[d] = dialogCalls[d] \o <<"onClose">>)
          /\ (lastOp'.i = d /\ ops' = ops + 1 =>
                \A e \in Dialogs \ {d} : dialogCalls'[e] = dialogCalls[e])]_vars

\* DeleteDialog was cancelled and ExportDialog confirmed.
C29_Witness ==
    /\ lastOp = Op("confirm", "ExportDialog")
    /\ dialogCalls["ExportDialog"] = <<"onConfirm", "onClose">>
    /\ dialogCalls["DeleteDialog"] = <<"onClose">>
    /\ \A d \in Dialogs : ~dialogOpen[d]

====
